---- MODULE Spec2Model ----
(***************************************************************************)
(* Golden-section search (src/src/main.rs) over the objective              *)
(* UnimodalProblem::calc (src/src/unimodal_problem/problem.rs).            *)
(*                                                                         *)
(* Every number of the program is an f32.  An f32 is modelled by its bit   *)
(* fields <<s, e, m>>: sign (0 or 1), biased exponent (0..255) and         *)
(* fraction (0..2^23-1).  The arithmetic below is IEEE-754 binary32 with   *)
(* round-to-nearest-even, subnormals, signed zeros, infinities and NaN,    *)
(* which is what Rust's f32 operators compute.                             *)
(*                                                                         *)
(* TLC passes operator arguments unevaluated and evaluates them again at   *)
(* every use.  Each operation therefore binds its operands once, as the    *)
(* elements of singleton sets, and computes on the bound values: Add(a, b) *)
(* is AddV(x, y) for x = a and y = b.                                      *)
(***************************************************************************)
EXTENDS Integers, Sequences, FiniteSets, TLC

(***************************************************************************)
(* f32: representation                                                     *)
(***************************************************************************)
\* The hidden bit of a 24-bit significand, the all-ones exponent field, the
\* exponent of the smallest subnormal, and the scaling that gives an aligned
\* significand five guard bits.
Hidden == 2^23
ExpMax == 2^8 - 1
MinExp == 1 - 127 - 23
Guard == 2^5

Max(a, b) == IF a >= b THEN a ELSE b

\* The number of bits of x (0 <= x < 2^31).
BitLen(x) == Cardinality({i \in 0..30 : 2^i <= x})

\* Every NaN is represented by this one value (the program never reads a
\* NaN's sign or payload).
NaN == <<0, ExpMax, 2^22>>
Inf(s) == <<s, ExpMax, 0>>
Zero(s) == <<s, 0, 0>>

IsNaN(x) == x[2] = ExpMax /\ x[3] # 0
IsInf(x) == x[2] = ExpMax /\ x[3] = 0
IsZero(x) == x[2] = 0 /\ x[3] = 0

Xor(s, t) == IF s = t THEN 0 ELSE 1

\* The value of a finite x is Sig(x) * 2^Exp(x).
Sig(x) == IF x[2] = 0 THEN x[3] ELSE Hidden + x[3]
Exp(x) == IF x[2] = 0 THEN MinExp ELSE x[2] - 150

\* A nonzero finite x with its significand shifted up to 24 bits.
NormSig(x) == Sig(x) * 2^(24 - BitLen(Sig(x)))
NormExp(x) == Exp(x) - (24 - BitLen(Sig(x)))

\* sig * 2^eu with sig <= 2^24 already rounded: the bit fields.
Finish(s, eu, sig) ==
    IF sig = 2 * Hidden
    THEN (IF eu + 151 >= ExpMax THEN Inf(s) ELSE <<s, eu + 151, 0>>)
    ELSE IF sig < Hidden
    THEN <<s, 0, sig>>
    ELSE IF eu + 150 >= ExpMax THEN Inf(s) ELSE <<s, eu + 150, sig - Hidden>>

\* M * 2^E (0 <= M < 2^31) rounded to the nearest f32, ties to even.  A caller
\* that dropped nonzero bits below M has set M's lowest bit (a sticky bit) and
\* keeps at least two bits of M below the rounding position.
RoundPackV(s, E, M) ==
    IF M = 0 THEN Zero(s)
    ELSE LET L == BitLen(M)
             q == Max(L - 24, MinExp - E)
         IN IF q <= 0 THEN Finish(s, E + q, M * 2^(0 - q))
            ELSE IF q > L THEN Zero(s)
            ELSE LET sig0 == M \div 2^q
                     rem  == M % 2^q
                     half == 2^(q - 1)
                     up   == rem > half \/ (rem = half /\ sig0 % 2 = 1)
                 IN Finish(s, E + q, IF up THEN sig0 + 1 ELSE sig0)

RoundPack(s, E, M) ==
    CHOOSE r \in {RoundPackV(s1, E1, M1) : s1 \in {s}, E1 \in {E}, M1 \in {M}} : TRUE

\* M shifted right by d bits, the bits shifted out or-ed into the lowest bit.
ShiftRightJam(M, d) ==
    IF d = 0 THEN M
    ELSE IF d >= 31 THEN (IF M # 0 THEN 1 ELSE 0)
    ELSE LET qd == M \div 2^d
         IN IF M % 2^d # 0 /\ qd % 2 = 0 THEN qd + 1 ELSE qd

(***************************************************************************)
(* f32: operations                                                         *)
(***************************************************************************)
Neg(x) == <<1 - x[1], x[2], x[3]>>
AbsV(x) == <<0, x[2], x[3]>>
Abs(a) == CHOOSE r \in {AbsV(x) : x \in {a}} : TRUE

AddFinite(a, b) ==
    LET hi == IF Exp(a) >= Exp(b) THEN a ELSE b
        lo == IF Exp(a) >= Exp(b) THEN b ELSE a
        E  == Exp(hi) - 5
        mh == Sig(hi) * Guard
        ml == ShiftRightJam(Sig(lo) * Guard, Exp(hi) - Exp(lo))
    IN IF hi[1] = lo[1] THEN RoundPack(hi[1], E, mh + ml)
       ELSE IF mh > ml THEN RoundPack(hi[1], E, mh - ml)
       ELSE IF mh < ml THEN RoundPack(lo[1], E, ml - mh)
       ELSE Zero(0)

AddV(a, b) ==
    IF IsNaN(a) \/ IsNaN(b) THEN NaN
    ELSE IF IsInf(a) THEN (IF IsInf(b) /\ a[1] # b[1] THEN NaN ELSE a)
    ELSE IF IsInf(b) THEN b
    ELSE IF IsZero(a) /\ IsZero(b) THEN Zero(IF a[1] = b[1] THEN a[1] ELSE 0)
    ELSE IF IsZero(a) THEN b
    ELSE IF IsZero(b) THEN a
    ELSE AddFinite(a, b)

Add(a, b) == CHOOSE r \in {AddV(x, y) : x \in {a}, y \in {b}} : TRUE

Sub(a, b) == CHOOSE r \in {AddV(x, Neg(y)) : x \in {a}, y \in {b}} : TRUE

MulFinite(a, b) ==
    LET A    == NormSig(a)
        B    == NormSig(b)
        a1   == A \div 2^12
        a0   == A % 2^12
        b1   == B \div 2^12
        b0   == B % 2^12
        mid  == a1 * b0 + a0 * b1
        low  == a0 * b0 + (mid % 2^12) * 2^12
        high == a1 * b1 + (mid \div 2^12) + (low \div 2^24)
        lo24 == low % 2^24
        top  == high * 8 + (lo24 \div 2^21)
        M    == IF lo24 % 2^21 # 0 /\ top % 2 = 0 THEN top + 1 ELSE top
    IN RoundPack(Xor(a[1], b[1]), NormExp(a) + NormExp(b) + 21, M)

MulV(a, b) ==
    IF IsNaN(a) \/ IsNaN(b) THEN NaN
    ELSE IF IsInf(a) \/ IsInf(b)
    THEN (IF IsZero(a) \/ IsZero(b) THEN NaN ELSE Inf(Xor(a[1], b[1])))
    ELSE IF IsZero(a) \/ IsZero(b) THEN Zero(Xor(a[1], b[1]))
    ELSE MulFinite(a, b)

Mul(a, b) == CHOOSE r \in {MulV(x, y) : x \in {a}, y \in {b}} : TRUE

\* n more quotient bits of r / B (r < B): <<quotient, remainder>>.
RECURSIVE DivLoop(_, _, _, _)
DivLoop(r, B, q, n) ==
    IF n = 0 THEN <<q, r>>
    ELSE IF 2 * r >= B THEN DivLoop(2 * r - B, B, 2 * q + 1, n - 1)
    ELSE DivLoop(2 * r, B, 2 * q, n - 1)

DivFinite(a, b) ==
    LET A  == NormSig(a)
        B  == NormSig(b)
        qr == DivLoop(A % B, B, A \div B, 26)
        Q  == qr[1]
        M  == IF qr[2] # 0 /\ Q % 2 = 0 THEN Q + 1 ELSE Q
    IN RoundPack(Xor(a[1], b[1]), NormExp(a) - NormExp(b) - 26, M)

DivV(a, b) ==
    IF IsNaN(a) \/ IsNaN(b) THEN NaN
    ELSE IF IsInf(a) THEN (IF IsInf(b) THEN NaN ELSE Inf(Xor(a[1], b[1])))
    ELSE IF IsInf(b) THEN Zero(Xor(a[1], b[1]))
    ELSE IF IsZero(b) THEN (IF IsZero(a) THEN NaN ELSE Inf(Xor(a[1], b[1])))
    ELSE IF IsZero(a) THEN Zero(Xor(a[1], b[1]))
    ELSE DivFinite(a, b)

Div(a, b) == CHOOSE r \in {DivV(x, y) : x \in {a}, y \in {b}} : TRUE

\* Digit-by-digit square root of N * 4^14 (N < 2^26), pairs i = 26 .. 0 of the
\* radicand: <<root, remainder>>.
RECURSIVE SqrtLoop(_, _, _, _)
SqrtLoop(N, rem, root, i) ==
    IF i < 0 THEN <<root, rem>>
    ELSE LET pair == IF i >= 14 THEN (N \div 4^(i - 14)) % 4 ELSE 0
             r    == 4 * rem + pair
             t    == 4 * root + 1
         IN IF r >= t THEN SqrtLoop(N, r - t, 2 * root + 1, i - 1)
            ELSE SqrtLoop(N, r, 2 * root, i - 1)

SqrtV(a) ==
    IF IsNaN(a) THEN NaN
    ELSE IF IsZero(a) THEN a
    ELSE IF a[1] = 1 THEN NaN
    ELSE IF IsInf(a) THEN a
    ELSE LET odd == NormExp(a) % 2 # 0
             N   == IF odd THEN 2 * NormSig(a) ELSE NormSig(a)
             E   == IF odd THEN NormExp(a) - 1 ELSE NormExp(a)
             rr  == SqrtLoop(N, 0, 0, 26)
             M   == IF rr[2] # 0 /\ rr[1] % 2 = 0 THEN rr[1] + 1 ELSE rr[1]
         IN RoundPack(0, (E - 28) \div 2, M)

Sqrt(a) == CHOOSE r \in {SqrtV(x) : x \in {a}} : TRUE

\* Sign-magnitude order of the non-NaN values; both zeros have key 0.
Key(x) == IF x[1] = 1 THEN 0 - (x[2] * Hidden + x[3]) ELSE x[2] * Hidden + x[3]

Lt(a, b) == \E x \in {a}, y \in {b} : ~IsNaN(x) /\ ~IsNaN(y) /\ Key(x) < Key(y)
Gt(a, b) == Lt(b, a)
Le(a, b) == \E x \in {a}, y \in {b} : ~IsNaN(x) /\ ~IsNaN(y) /\ Key(x) <= Key(y)

\* The f32 of an integer literal n (|n| < 2^24) and of a decimal literal p/q.
FromInt(n) == IF n < 0 THEN RoundPack(1, 0, 0 - n) ELSE RoundPack(0, 0, n)
Dec(p, q) == Div(FromInt(p), FromInt(q))

(***************************************************************************)
(* The program                                                             *)
(***************************************************************************)
\* main.rs 23-24: the lazy statics.
\* (PHI_Precedence: the division binds to the square root alone.)
PHI_Precedence == Add(FromInt(1), Div(Sqrt(FromInt(5)), FromInt(2)))
PHI == Div(Add(FromInt(1), Sqrt(FromInt(5))), FromInt(2))
RESPHI == Sub(FromInt(2), PHI)

\* problem.rs 9-12, 46-49: the structs; 53-59: new; 71-77: build.
UnimodalProblem(offset, scale) == [x_offset |-> offset, scale_factor |-> scale]
UnimodalProblemBuilder_new == [x_offset |-> FromInt(0), scale_factor |-> FromInt(0)]
build(builder) == UnimodalProblem(builder.x_offset, builder.scale_factor)

\* rand's gen::<f32>() as problem.rs 65-66 call it: the top 24 bits k of a
\* 32-bit draw (0 <= k < 2^24) scaled by 2^-24, a value of [0, 1).
gen(k) == RoundPack(0, 0 - 24, k)

\* problem.rs 61-69: randomize, for the two draws the thread's generator yields.
randomize(builder, k1, k2) ==
    [x_offset |-> Mul(Sub(gen(k1), Dec(1, 2)), FromInt(100)),
     scale_factor |-> Mul(Sub(gen(k2), Dec(1, 2)), FromInt(20))]

\* problem.rs 28-39: scale_factor * |1.0 / (x - x_offset)|.
calc(p, x) == Mul(p.scale_factor, Abs(Div(FromInt(1), Sub(x, p.x_offset))))

\* main.rs 42 and 56: lower_bound + RESPHI * (upper_bound - lower_bound).
LowerProbe(lb, ub) == Add(lb, Mul(RESPHI, Sub(ub, lb)))
\* main.rs 45 and 63: upper_bound - RESPHI * (upper_bound - lower_bound).
\* (UpperProbePlus: the offset is added instead of subtracted.)
UpperProbePlus(lb, ub) == Add(ub, Mul(RESPHI, Sub(ub, lb)))
UpperProbe(lb, ub) == Sub(ub, Mul(RESPHI, Sub(ub, lb)))
\* main.rs 50 and 66: f32::abs(upper_bound - lower_bound).
Width(lb, ub) == Abs(Sub(ub, lb))
\* main.rs 50: the loop condition.
\* (LoopCondNoAbs: the difference taken the other way round, without abs;
\*  LoopCondNoTol: the width compared with zero instead of xtol;
\*  LoopCondGe: >= instead of >.)
LoopCondNoAbs(lb, ub, xt) == Gt(Sub(lb, ub), xt)
LoopCondNoTol(lb, ub, xt) == Gt(Width(lb, ub), Zero(0))
LoopCondGe(lb, ub, xt) == Le(xt, Width(lb, ub))
LoopCond(lb, ub, xt) == Gt(Width(lb, ub), xt)
\* main.rs 51: the branch condition.
\* (LowerIsBetterFlipped: > instead of <; LowerIsBetterOrEqual: <= instead of <.)
LowerIsBetterFlipped(lv, uv) == Gt(lv, uv)
LowerIsBetterOrEqual(lv, uv) == Le(lv, uv)
LowerIsBetter(lv, uv) == Lt(lv, uv)
\* main.rs 68: (upper_bound + lower_bound) / 2.0.
Midpoint(lb, ub) == Div(Add(ub, lb), FromInt(2))

(***************************************************************************)
(* Inputs of one call of golden_section_search                             *)
(***************************************************************************)
\* How many loop iterations and calc calls the two counters tell apart; a
\* counter that reaches its cap stays there.
MaxIter == 64

Min(a, b) == IF a <= b THEN a ELSE b

\* The draw whose gen is 0.5, which randomize turns into 0.
HalfDraw == 2^23

\* Pairs <<k1, k2>> of draws.  randomize turns them into the problems
\* (5.000001, 2.0000005), (5.000001, -2.0000005), (0, -1.0000002),
\* (10.000002, -2.0000005), (-47.000004, -2.9999995) and (0, 0).
Draws ==
    { <<HalfDraw + 838861, HalfDraw + 1677722>>,
      <<HalfDraw + 838861, HalfDraw - 1677722>>,
      <<HalfDraw, HalfDraw - 838861>>,
      <<HalfDraw + 1677722, HalfDraw - 1677722>>,
      <<HalfDraw - 7885292, HalfDraw - 2516582>>,
      <<HalfDraw, HalfDraw>> }

\* main.rs 96: UnimodalProblemBuilder::new().randomize().build().
Problems ==
    { build(randomize(UnimodalProblemBuilder_new, d[1], d[2])) : d \in Draws }

\* <<lower_bound, upper_bound>>; main.rs 100-101 passes <<-200.0, 200.0>>.
Brackets ==
    { <<FromInt(0 - 200), FromInt(200)>> }

\* main.rs 81: the default tolerance is 2.0; any f32 can be given.
Tolerances ==
    { FromInt(2), Dec(1, 100), Dec(1, 1000000), FromInt(0), FromInt(0 - 1),
      FromInt(400), FromInt(500) }

(***************************************************************************)
(* State                                                                   *)
(***************************************************************************)
VARIABLES
    pc,            \* "entry" (main.rs 42), "loop" (main.rs 50), "done" (returned)
    problem,       \* the borrowed UnimodalProblem
    lower_bound, upper_bound, xtol,
    lower_search, lower_val, upper_search, upper_val,
    final_x, final_val,
    printed,       \* the last line written by println! (main.rs 66), or <<>>
    calls,         \* how many times calc has been called
    iters,         \* how many loop iterations have run
    entry,         \* <<lower_bound, upper_bound>> as passed by the caller
    prev           \* the search state before the latest iteration

vars == <<pc, problem, lower_bound, upper_bound, xtol, lower_search, lower_val,
          upper_search, upper_val, final_x, final_val, printed, calls, iters,
          entry, prev>>

SearchState ==
    [lower_bound |-> lower_bound, upper_bound |-> upper_bound,
     lower_search |-> lower_search, upper_search |-> upper_search,
     lower_val |-> lower_val, upper_val |-> upper_val]

Init ==
    /\ pc = "entry"
    /\ problem \in Problems
    /\ \E b \in Brackets : lower_bound = b[1] /\ upper_bound = b[2]
                           /\ entry = b
    /\ xtol \in Tolerances
    /\ lower_search = Zero(0) /\ lower_val = Zero(0)
    /\ upper_search = Zero(0) /\ upper_val = Zero(0)
    /\ final_x = Zero(0) /\ final_val = Zero(0)
    /\ printed = <<>>
    /\ calls = 0
    /\ iters = 0
    /\ prev = [lower_bound |-> Zero(0), upper_bound |-> Zero(0),
               lower_search |-> Zero(0), upper_search |-> Zero(0),
               lower_val |-> Zero(0), upper_val |-> Zero(0)]

\* main.rs 42-46: the two probes and their values.
Start ==
    /\ pc = "entry"
    /\ lower_search' = LowerProbe(lower_bound, upper_bound)
    /\ lower_val' = calc(problem, lower_search')
    /\ upper_search' = UpperProbe(lower_bound, upper_bound)
    /\ upper_val' = calc(problem, upper_search')
    /\ calls' = Min(calls + 2, MaxIter + 3)
    /\ pc' = "loop"
    /\ UNCHANGED <<problem, lower_bound, upper_bound, xtol, final_x, final_val,
                   printed, iters, entry, prev>>

\* (ShrinkUpperStale: the if branch without main.rs 54, upper_val = lower_val.)
ShrinkUpperStale ==
    /\ pc = "loop"
    /\ LoopCond(lower_bound, upper_bound, xtol)
    /\ LowerIsBetter(lower_val, upper_val)
    /\ upper_bound' = upper_search
    /\ upper_search' = lower_search
    /\ lower_search' = LowerProbe(lower_bound, upper_bound')
    /\ lower_val' = calc(problem, lower_search')
    /\ printed' = <<lower_bound, upper_bound', Width(lower_bound, upper_bound')>>
    /\ calls' = Min(calls + 1, MaxIter + 3)
    /\ iters' = Min(iters + 1, MaxIter)
    /\ prev' = SearchState
    /\ UNCHANGED <<pc, problem, lower_bound, xtol, final_x, final_val, entry,
                   upper_val>>

\* main.rs 50-57, 66: an iteration that takes the if branch.
ShrinkUpper ==
    /\ pc = "loop"
    /\ LoopCond(lower_bound, upper_bound, xtol)
    /\ LowerIsBetter(lower_val, upper_val)
    /\ upper_bound' = upper_search
    /\ upper_search' = lower_search
    /\ upper_val' = lower_val
    /\ lower_search' = LowerProbe(lower_bound, upper_bound')
    /\ lower_val' = calc(problem, lower_search')
    /\ printed' = <<lower_bound, upper_bound', Width(lower_bound, upper_bound')>>
    /\ calls' = Min(calls + 1, MaxIter + 3)
    /\ iters' = Min(iters + 1, MaxIter)
    /\ prev' = SearchState
    /\ UNCHANGED <<pc, problem, lower_bound, xtol, final_x, final_val, entry>>

\* (ShrinkLowerRecalc: the else branch calling calc for the kept probe too.)
ShrinkLowerRecalc ==
    /\ pc = "loop"
    /\ LoopCond(lower_bound, upper_bound, xtol)
    /\ ~LowerIsBetter(lower_val, upper_val)
    /\ lower_bound' = lower_search
    /\ lower_search' = upper_search
    /\ lower_val' = calc(problem, lower_search')
    /\ upper_search' = UpperProbe(lower_bound', upper_bound)
    /\ upper_val' = calc(problem, upper_search')
    /\ printed' = <<lower_bound', upper_bound, Width(lower_bound', upper_bound)>>
    /\ calls' = Min(calls + 2, MaxIter + 3)
    /\ iters' = Min(iters + 1, MaxIter)
    /\ prev' = SearchState
    /\ UNCHANGED <<pc, problem, upper_bound, xtol, final_x, final_val, entry>>

\* main.rs 50, 58-66: an iteration that takes the else branch.
ShrinkLower ==
    /\ pc = "loop"
    /\ LoopCond(lower_bound, upper_bound, xtol)
    /\ ~LowerIsBetter(lower_val, upper_val)
    /\ lower_bound' = lower_search
    /\ lower_search' = upper_search
    /\ lower_val' = upper_val
    /\ upper_search' = UpperProbe(lower_bound', upper_bound)
    /\ upper_val' = calc(problem, upper_search')
    /\ printed' = <<lower_bound', upper_bound, Width(lower_bound', upper_bound)>>
    /\ calls' = Min(calls + 1, MaxIter + 3)
    /\ iters' = Min(iters + 1, MaxIter)
    /\ prev' = SearchState
    /\ UNCHANGED <<pc, problem, upper_bound, xtol, final_x, final_val, entry>>

\* main.rs 50, 68-70: the loop condition is false; the midpoint is returned.
Return ==
    /\ pc = "loop"
    /\ ~LoopCond(lower_bound, upper_bound, xtol)
    /\ final_x' = Midpoint(lower_bound, upper_bound)
    /\ final_val' = calc(problem, final_x')
    /\ calls' = Min(calls + 1, MaxIter + 3)
    /\ pc' = "done"
    /\ UNCHANGED <<problem, lower_bound, upper_bound, xtol, lower_search,
                   lower_val, upper_search, upper_val, printed, iters, entry,
                   prev>>

Next == Start \/ ShrinkUpper \/ ShrinkLower \/ Return

Spec == Init /\ [][Next]_vars

\* The function runs on one thread with nothing to wait for: a step that can
\* be taken is taken.
FairSpec == Spec /\ WF_vars(Next)

(***************************************************************************)
(* Vocabulary of the properties                                            *)
(***************************************************************************)
Eq(a, b) == \E x \in {a}, y \in {b} : ~IsNaN(x) /\ ~IsNaN(y) /\ Key(x) = Key(y)

\* The caller's precondition: lower_bound < upper_bound and xtol > 0.
ValidCall == Lt(entry[1], entry[2]) /\ Gt(xtol, Zero(0))

EntryWidth == Sub(entry[2], entry[1])
EntryMagnitude ==
    IF Lt(Abs(entry[1]), Abs(entry[2])) THEN Abs(entry[2]) ELSE Abs(entry[1])

\* The tolerance is coarse for f32: the bounds are no larger in magnitude than
\* the bracket is wide, and xtol is at least 2^-16 of that width, so that the
\* loop ends (after at most 24 iterations) while the bracket is still many
\* f32 spacings wide.
CoarseTol ==
    /\ Le(EntryMagnitude, EntryWidth)
    /\ Le(Div(EntryWidth, FromInt(2^16)), xtol)

\* The objective has its one minimum (calc = -inf) at x_offset, inside the
\* bracket passed by the caller.
Unimodal ==
    /\ Lt(problem.scale_factor, Zero(0))
    /\ Le(entry[1], problem.x_offset)
    /\ Le(problem.x_offset, entry[2])

\* lower_bound < lower_search < upper_search < upper_bound.
Ordered ==
    /\ Lt(lower_bound, lower_search)
    /\ Lt(lower_search, upper_search)
    /\ Lt(upper_search, upper_bound)

\* At least one iteration has run, and prev is the state it started from.
Iterated == pc # "entry" /\ iters > 0

\* The spacing of the f32 values at the magnitude of x.
Ulp(x) == IF x[2] > 23 THEN <<0, x[2] - 23, 0>> ELSE <<0, 0, 1>>

\* Rounding slack of a width: four spacings of the larger entry bound.
Slack == Mul(FromInt(4), Ulp(EntryMagnitude))

(***************************************************************************)
(* C1                                                                      *)
(***************************************************************************)
\* C1: for every call with lower_bound < upper_bound and xtol > 0, the bracket
\* held when the function returns satisfies |upper_bound - lower_bound| <= xtol.
C1_ReturnedWidthWithinTol ==
    (pc = "done" /\ ValidCall) => Le(Width(lower_bound, upper_bound), xtol)

C1_Witness ==
    /\ pc = "done" /\ ValidCall /\ iters > 0
    /\ Gt(Width(entry[1], entry[2]), xtol)
    /\ Le(Width(lower_bound, upper_bound), xtol)

(***************************************************************************)
(* C2                                                                      *)
(***************************************************************************)
\* C2 as stated: for a strictly unimodal objective with its minimizer c in the
\* bracket, lower_bound < upper_bound and xtol > 0, no iteration discards the
\* part of the bracket that holds c and the returned estimate x satisfies
\* |x - c| <= xtol.
C2_Original ==
    (pc # "entry" /\ ValidCall /\ Unimodal) =>
        /\ Le(lower_bound, problem.x_offset)
        /\ Le(problem.x_offset, upper_bound)
        /\ pc = "done" => Le(Abs(Sub(final_x, problem.x_offset)), xtol)

\* C2 amended: the same, for a tolerance that is coarse for f32 (CoarseTol).
C2_EstimateNearMinimizer ==
    (pc # "entry" /\ ValidCall /\ CoarseTol /\ Unimodal) =>
        /\ Le(lower_bound, problem.x_offset)
        /\ Le(problem.x_offset, upper_bound)
        /\ pc = "done" => Le(Abs(Sub(final_x, problem.x_offset)), xtol)

C2_Witness ==
    /\ pc = "done" /\ ValidCall /\ CoarseTol /\ Unimodal /\ iters > 0
    /\ Le(Abs(Sub(final_x, problem.x_offset)), xtol)
    /\ xtol = Dec(1, 100)

(***************************************************************************)
(* C3                                                                      *)
(***************************************************************************)
\* C3: with x_offset = 5 and scale_factor = 2, the search on [-200, 200] with
\* xtol = 2.0 returns an estimate x with |x - 5.0| <= 2.0.  (The problem is the
\* one nearest to that which randomize can produce: x_offset = 5.000001,
\* scale_factor = 2.0000005.)
C3_Scenario ==
    ( /\ pc = "done"
      /\ problem = build(randomize(UnimodalProblemBuilder_new,
                                   HalfDraw + 838861, HalfDraw + 1677722))
      /\ entry = <<FromInt(0 - 200), FromInt(200)>>
      /\ xtol = FromInt(2) )
    => Le(Abs(Sub(final_x, FromInt(5))), FromInt(2))

(***************************************************************************)
(* C4                                                                      *)
(***************************************************************************)
\* C4 as stated: every call with lower_bound < upper_bound and xtol > 0
\* eventually returns.
C4_Original == (pc = "entry" /\ ValidCall) ~> (pc = "done")

\* C4 amended: every call with lower_bound < upper_bound and a tolerance that
\* is coarse for f32 eventually returns; a call with xtol < 0 never returns,
\* and a call with xtol = 0 returns only once the two bounds are equal.
C4_Terminates ==
    /\ (pc = "entry" /\ ValidCall /\ CoarseTol) ~> (pc = "done")
    /\ []((pc = "done" /\ Lt(entry[1], entry[2]) /\ ~Gt(xtol, Zero(0)))
            => (IsZero(xtol) /\ Eq(lower_bound, upper_bound)))

C4_Witness ==
    /\ pc = "done" /\ ValidCall /\ CoarseTol /\ iters > 20

(***************************************************************************)
(* C5                                                                      *)
(***************************************************************************)
\* C5 as stated: started with lower_bound < upper_bound, the search state
\* satisfies lower_bound < lower_search < upper_search < upper_bound after
\* initialization and after every loop iteration.
C5_Original == (pc # "entry" /\ Lt(entry[1], entry[2])) => Ordered

\* C5 amended: the same, for a call whose tolerance is coarse for f32.
C5_ProbesOrdered ==
    (pc # "entry" /\ Lt(entry[1], entry[2]) /\ CoarseTol) => Ordered

C5_Witness ==
    /\ pc = "loop" /\ CoarseTol /\ iters > 20 /\ Ordered
    /\ Eq(lower_bound, prev.lower_search)

(***************************************************************************)
(* C6                                                                      *)
(***************************************************************************)
\* C6: a call that runs n loop iterations calls calc n + 3 times: two before
\* the loop, one in each iteration, one at the final midpoint.
C6_CalcCalls ==
    iters < MaxIter =>
        /\ pc = "entry" => calls = 0
        /\ pc = "loop" => calls = iters + 2
        /\ pc = "done" => calls = iters + 3

C6_Witness == pc = "done" /\ iters = 12 /\ calls = 15

(***************************************************************************)
(* C7                                                                      *)
(***************************************************************************)
\* C7 as stated: every iteration leaves a bracket at most rho = 2 - phi
\* (about 0.382) times as wide as before, up to floating-point slack.
C7_Original ==
    Iterated =>
        Le(Width(lower_bound, upper_bound),
           Add(Mul(RESPHI, Width(prev.lower_bound, prev.upper_bound)), Slack))

\* C7 amended: every iteration leaves a bracket at most 1 - rho = phi - 1
\* (about 0.618) times as wide as before, up to floating-point slack.
C7_ShrinkFactor ==
    Iterated =>
        Le(Width(lower_bound, upper_bound),
           Add(Mul(Sub(FromInt(1), RESPHI),
                   Width(prev.lower_bound, prev.upper_bound)), Slack))

C7_Witness ==
    /\ Iterated
    /\ Gt(Width(lower_bound, upper_bound),
          Mul(Dec(6, 10), Width(prev.lower_bound, prev.upper_bound)))
    /\ Gt(Width(lower_bound, upper_bound), FromInt(1))

(***************************************************************************)
(* C8                                                                      *)
(***************************************************************************)
\* C8: if |upper_bound - lower_bound| <= xtol holds on entry, the loop body
\* runs zero times and the function returns the midpoint of the unmodified
\* bounds and calc of it, the midpoint being evaluated once.
C8_NoIteration ==
    (pc = "done" /\ Le(Abs(Sub(entry[2], entry[1])), xtol)) =>
        /\ iters = 0
        /\ lower_bound = entry[1] /\ upper_bound = entry[2]
        /\ final_x = Div(Add(entry[1], entry[2]), FromInt(2))
        /\ final_val = calc(problem, final_x)
        /\ calls = 3

C8_Witness ==
    /\ pc = "done" /\ iters = 0 /\ calls = 3
    /\ Eq(Abs(Sub(entry[2], entry[1])), xtol)

(***************************************************************************)
(* C9                                                                      *)
(***************************************************************************)
\* C9 as stated: an iteration that finds lower_val == upper_val replaces
\* upper_bound by upper_search and leaves lower_bound unchanged.
C9_Original ==
    (Iterated /\ Eq(prev.lower_val, prev.upper_val)) =>
        /\ upper_bound = prev.upper_search
        /\ lower_bound = prev.lower_bound

\* C9 amended: an iteration that finds lower_val == upper_val takes the else
\* branch: it replaces lower_bound by lower_search and leaves upper_bound
\* unchanged.
C9_TieShrinksLower ==
    (Iterated /\ Eq(prev.lower_val, prev.upper_val)) =>
        /\ lower_bound = prev.lower_search
        /\ upper_bound = prev.upper_bound
        /\ lower_search = prev.upper_search

C9_Witness ==
    /\ Iterated /\ Eq(prev.lower_val, prev.upper_val)
    /\ Lt(prev.lower_bound, lower_bound)
    /\ upper_bound = prev.upper_bound

(***************************************************************************)
(* C10                                                                     *)
(***************************************************************************)
\* C10: whenever the loop condition is evaluated, the cached values are the
\* objective's values at the current probes.
C10_CacheAgrees ==
    pc = "loop" =>
        /\ lower_val = calc(problem, lower_search)
        /\ upper_val = calc(problem, upper_search)

C10_Witness ==
    /\ pc = "loop" /\ iters > 1
    /\ upper_search = prev.lower_search
    /\ upper_val = prev.lower_val
    /\ upper_val = calc(problem, upper_search)
    /\ ~Eq(lower_val, upper_val)

====
